---- MODULE Spec2Model ----
(***************************************************************************)
(* DeliberateMouseDriver: a HIDDriverKit mouse driver that re-dispatches   *)
(* every HID report as one relative pointer event and one scroll event     *)
(* with acceleration disabled.                                             *)
(*                                                                         *)
(* The model follows DeliberateMouseDriver.cpp: the instance variables     *)
(* (interface, reportAvailableAction, mouseElements, buttonState), the     *)
(* lifecycle handlers init / Start_Impl / Stop_Impl / free, the element    *)
(* classifier parseMouseElements and the report handler handleReport /     *)
(* handleMouseReport.  Handlers run on the driver's serial dispatch queue, *)
(* so each handler is one action.                                          *)
(***************************************************************************)
EXTENDS Integers, Sequences, FiniteSets, TLC

(***************************************************************************)
(* Bounds of the model.                                                    *)
(***************************************************************************)
\* Longest element array a device declares.
MaxElems == 2

(***************************************************************************)
(* Constants of the HID headers the driver uses.                           *)
(***************************************************************************)
kIOHIDElementTypeCollection == 513
kHIDPage_GenericDesktop == 1
kHIDPage_Button == 9
kHIDUsage_GD_X == 48
kHIDUsage_GD_Y == 49
kHIDUsage_GD_Wheel == 56
kHIDUsage_Button_1 == 1
kHIDUsage_Button_255 == 255

\* Width of buttonState (uint32_t) and of the int that 1 << index shifts.
MaskBits == 32
\* The shifts that scale the raw samples into IOFixed.
PointerShift == 15
ScrollShift == 16
\* The scroll multiplier, before it is shifted into 16.16.
ScrollMultiplier == -3

kIOReturnSuccess == "kIOReturnSuccess"
kIOReturnError == "kIOReturnError"
kIOReturnInvalid == "kIOReturnInvalid"
\* What a failing collaborator (super::Start, CreateAction..., Open,
\* RegisterService) returns: some code other than kIOReturnSuccess.
kIOReturnFailed == "kIOReturnFailed"

(***************************************************************************)
(* 32-bit arithmetic.  An int32_t / IOFixed is the integer it denotes; a   *)
(* uint32_t that is only tested against 0 is its two 16-bit halves; the    *)
(* uint32_t button mask is the set of its set bits.  No intermediate       *)
(* result leaves the 32-bit range.                                         *)
(***************************************************************************)
Pow2(n) == 2 ^ n

Half == 65536

\* The int32_t with high half hi (taken modulo 2^16, as a signed half) and
\* low half lo (0..65535).
FromHalves(hi, lo) ==
    LET h == hi % Half
    IN  (IF h >= Half \div 2 THEN h - Half ELSE h) * Half + lo

\* x + y on int32_t, wrapping.
Add32(x, y) ==
    LET lo == (x % Half) + (y % Half)
        hi == (x \div Half) + (y \div Half) + (lo \div Half)
    IN  FromHalves(hi, lo % Half)

\* value << n on an int32_t, as the two's complement targets compute it:
\* the low 32 - n bits move up, the others are lost.
ShiftLeft32(value, n) ==
    LET keep == Pow2(32 - n)
        u == value % keep
    IN  IF u >= keep \div 2 THEN (u - keep) * Pow2(n) ELSE u * Pow2(n)

\* IOFixedMultiply(a, b): (IOFixed)(((int64_t) a * (int64_t) b) >> 16),
\* computed on the 16-bit halves of a and b.
IOFixedMultiply(a, b) ==
    LET ah == a \div Half
        al == a % Half
        bh == b \div Half
        bl == b % Half
        \* (al * bl) >> 16
        low == (((al \div 256) * bl) + (((al % 256) * bl) \div 256)) \div 256
    IN  Add32(Add32(ShiftLeft32(ah * bh, 16), ah * bl),
              Add32(al * bh, low))

\* The conversion int32_t -> uint32_t at the call of setButtonState.
ToUint32(n) == [hi |-> (n \div Half) % Half, lo |-> n % Half]

IsZero32(u) == (u.hi = 0) /\ (u.lo = 0)

(***************************************************************************)
(* The device: the elements it declares (the array getElements returns).   *)
(* An entry is an object of the array; isElement is whether                *)
(* OSDynamicCast(IOHIDElement, ...) succeeds on it.                        *)
(***************************************************************************)
Element(isElement, type, usagePage, usage, reportID) ==
    [isElement |-> isElement, type |-> type, usagePage |-> usagePage,
     usage |-> usage, reportID |-> reportID]

\* Element types other than collection: 1 is Input_Misc, 2 is Input_Button.
\* Page 12 is the consumer page; usage 50 of the generic desktop page is Z.
ElementCatalog ==
    { Element(FALSE, 1, kHIDPage_Button, 1, 1),
      Element(TRUE, kIOHIDElementTypeCollection, kHIDPage_Button, 1, 1),
      Element(TRUE, 2, kHIDPage_Button, 0, 1),
      Element(TRUE, 1, kHIDPage_GenericDesktop, kHIDUsage_GD_X, 1),
      Element(TRUE, 1, kHIDPage_GenericDesktop, kHIDUsage_GD_Y, 1),
      Element(TRUE, 1, kHIDPage_GenericDesktop, kHIDUsage_GD_Wheel, 1),
      Element(TRUE, 1, kHIDPage_GenericDesktop, 50, 1),
      Element(TRUE, 1, 12, kHIDUsage_GD_X, 1),
      Element(TRUE, 2, kHIDPage_Button, 1, 1),
      Element(TRUE, 2, kHIDPage_Button, 4, 2),
      Element(TRUE, 2, kHIDPage_Button, 33, 1),
      Element(TRUE, 2, kHIDPage_Button, 256, 1) }

Devices == UNION { [1..n -> ElementCatalog] : n \in 0..MaxElems }

\* Raw samples an element can hold, and the report IDs and timestamps.
Values == {-1, 0, 2}
ReportIDs == {1, 2}
TimeStamps == {1, 2}

Range(s) == { s[k] : k \in DOMAIN s }

(***************************************************************************)
(* parseMouseElements                                                      *)
(***************************************************************************)
\* Faulty variant: the fast fail forgets usage 0.
SkipElement_TypeOnly(type, usage) ==
    type = kIOHIDElementTypeCollection

\* The fast fail on collections and on usage 0.
SkipElement(type, usage) ==
    (type = kIOHIDElementTypeCollection) \/ (usage = 0)

\* Faulty variant: buttons are accepted only in the range handleMouseReport handles.
isMouseElement_ButtonRange(usagePage, usage) ==
    CASE usagePage = kHIDPage_GenericDesktop ->
            usage \in {kHIDUsage_GD_X, kHIDUsage_GD_Y, kHIDUsage_GD_Wheel}
      [] usagePage = kHIDPage_Button ->
            (usage >= kHIDUsage_Button_1) /\ (usage <= kHIDUsage_Button_255)
      [] OTHER -> FALSE

\* Faulty variant: the inner switch on the usage is missing.
isMouseElement_AnyAxis(usagePage, usage) ==
    CASE usagePage = kHIDPage_GenericDesktop -> TRUE
      [] usagePage = kHIDPage_Button -> TRUE
      [] OTHER -> FALSE

\* The switch on the usage page (and usage) that sets isMouseElement.
isMouseElement(usagePage, usage) ==
    CASE usagePage = kHIDPage_GenericDesktop ->
            usage \in {kHIDUsage_GD_X, kHIDUsage_GD_Y, kHIDUsage_GD_Wheel}
      [] usagePage = kHIDPage_Button -> TRUE
      [] OTHER -> FALSE

\* The loop over deviceElements from index i on.  mouseElements holds
\* references to elements: indices into deviceElements.
RECURSIVE parseLoop(_, _, _, _)
parseLoop(deviceElements, i, elems, found) ==
    IF i > Len(deviceElements)
    THEN [mouseElements |-> elems, found |-> found]
    ELSE LET e == deviceElements[i]
         IN  IF ~e.isElement
             THEN parseLoop(deviceElements, i + 1, elems, found)
             ELSE IF SkipElement(e.type, e.usage)
             THEN parseLoop(deviceElements, i + 1, elems, found)
             ELSE IF isMouseElement(e.usagePage, e.usage)
             THEN parseLoop(deviceElements, i + 1, Append(elems, i), TRUE)
             ELSE parseLoop(deviceElements, i + 1, elems, found)

\* Faulty variant: foundMouseElements starts out true.
parseMouseElements_FoundSet(deviceElements, elems) ==
    parseLoop(deviceElements, 1, elems, TRUE)

parseMouseElements(deviceElements, elems) ==
    parseLoop(deviceElements, 1, elems, FALSE)

(***************************************************************************)
(* setButtonState                                                          *)
(***************************************************************************)
\* 1 << index on a 32-bit int is undefined for index >= 32.  The builds
\* differ: the shift count is taken modulo 32 ("wrap"), or every bit is
\* shifted out ("zero").
ShiftOutcomes == {"wrap", "zero"}

\* Faulty variant: the mask is 2 << index.
OneShiftLeft_NextBit(index, outcome) ==
    IF index + 1 < MaskBits THEN {index + 1}
    ELSE IF outcome = "wrap" THEN {(index + 1) % MaskBits}
    ELSE {}

OneShiftLeft(index, outcome) ==
    IF index < MaskBits THEN {index}
    ELSE IF outcome = "wrap" THEN {index % MaskBits}
    ELSE {}

setButtonState(buttonState, index, value, outcome) ==
    LET mask == OneShiftLeft(index, outcome)
    IN  IF IsZero32(value)
        THEN buttonState \ mask
        ELSE buttonState \cup mask

(***************************************************************************)
(* handleMouseReport                                                       *)
(***************************************************************************)
\* The elements of elems for which setButtonState is called with an index
\* of 32 or more, if they are in the report.
UndefinedShifts(elems, deviceElements) ==
    { i \in Range(elems) :
        /\ deviceElements[i].usagePage = kHIDPage_Button
        /\ deviceElements[i].usage >= kHIDUsage_Button_1
        /\ deviceElements[i].usage <= kHIDUsage_Button_255
        /\ deviceElements[i].usage - kHIDUsage_Button_1 >= MaskBits }

\* Faulty variants: a filter that never skips.
SkipReportID_Never(reportID, elementReportID) == FALSE

SkipTimeStamp_Never(timestamp, elementTimestamp) == FALSE

\* The two filters at the head of the loop body.
SkipReportID(reportID, elementReportID) == reportID /= elementReportID

SkipTimeStamp(timestamp, elementTimestamp) == elementTimestamp /= timestamp

\* Faulty variant: the pointer deltas are scaled like the scroll value, by 16 bits.
ApplyElement_ScrollShift(acc, usagePage, usage, value, outcome) ==
    CASE usagePage = kHIDPage_GenericDesktop ->
            ( CASE usage = kHIDUsage_GD_X ->
                     [acc EXCEPT !.dX = ShiftLeft32(value, ScrollShift)]
                [] usage = kHIDUsage_GD_Y ->
                     [acc EXCEPT !.dY = ShiftLeft32(value, ScrollShift)]
                [] usage = kHIDUsage_GD_Wheel ->
                     [acc EXCEPT !.scrollVert =
                         IOFixedMultiply(ShiftLeft32(value, ScrollShift),
                                         ShiftLeft32(ScrollMultiplier, ScrollShift))]
                [] OTHER -> acc )
      [] usagePage = kHIDPage_Button ->
            IF (usage >= kHIDUsage_Button_1) /\ (usage <= kHIDUsage_Button_255)
            THEN [acc EXCEPT !.buttonState =
                     setButtonState(@, usage - kHIDUsage_Button_1,
                                    ToUint32(value), outcome)]
            ELSE acc
      [] OTHER -> acc

\* The switch on the usage page of an element that passed the filters.
\* acc holds dX, dY, scrollVert and ivars->buttonState.
ApplyElement(acc, usagePage, usage, value, outcome) ==
    CASE usagePage = kHIDPage_GenericDesktop ->
            ( CASE usage = kHIDUsage_GD_X ->
                     [acc EXCEPT !.dX = ShiftLeft32(value, PointerShift)]
                [] usage = kHIDUsage_GD_Y ->
                     [acc EXCEPT !.dY = ShiftLeft32(value, PointerShift)]
                [] usage = kHIDUsage_GD_Wheel ->
                     [acc EXCEPT !.scrollVert =
                         IOFixedMultiply(ShiftLeft32(value, ScrollShift),
                                         ShiftLeft32(ScrollMultiplier, ScrollShift))]
                [] OTHER -> acc )
      [] usagePage = kHIDPage_Button ->
            IF (usage >= kHIDUsage_Button_1) /\ (usage <= kHIDUsage_Button_255)
            THEN [acc EXCEPT !.buttonState =
                     setButtonState(@, usage - kHIDUsage_Button_1,
                                    ToUint32(value), outcome)]
            ELSE acc
      [] OTHER -> acc

\* Faulty variant: an element with another timestamp ends the loop.
RECURSIVE reportLoop_BreakOnStale(_, _, _, _, _, _, _, _)
reportLoop_BreakOnStale(timestamp, reportID, elems, deviceElements, sample, outcome, k, acc) ==
    IF k > Len(elems) THEN acc
    ELSE LET i == elems[k]
             e == deviceElements[i]
         IN  IF SkipReportID(reportID, e.reportID)
             THEN reportLoop_BreakOnStale(timestamp, reportID, elems, deviceElements,
                                          sample, outcome, k + 1, acc)
             ELSE IF SkipTimeStamp(timestamp, sample[i].stamp)
             THEN acc
             ELSE reportLoop_BreakOnStale(timestamp, reportID, elems, deviceElements,
                                          sample, outcome, k + 1,
                                          ApplyElement(acc, e.usagePage, e.usage,
                                                       sample[i].value,
                                                       IF i \in DOMAIN outcome
                                                       THEN outcome[i] ELSE "defined"))

\* The loop over ivars->mouseElements from position k on.  sample[i] is the
\* value and timestamp element i holds; outcome[i] is what the build makes of
\* an undefined shift for element i.
RECURSIVE reportLoop(_, _, _, _, _, _, _, _)
reportLoop(timestamp, reportID, elems, deviceElements, sample, outcome, k, acc) ==
    IF k > Len(elems) THEN acc
    ELSE LET i == elems[k]
             e == deviceElements[i]
         IN  IF ~e.isElement
             THEN reportLoop(timestamp, reportID, elems, deviceElements,
                             sample, outcome, k + 1, acc)
             ELSE IF SkipReportID(reportID, e.reportID)
             THEN reportLoop(timestamp, reportID, elems, deviceElements,
                             sample, outcome, k + 1, acc)
             ELSE IF SkipTimeStamp(timestamp, sample[i].stamp)
             THEN reportLoop(timestamp, reportID, elems, deviceElements,
                             sample, outcome, k + 1, acc)
             ELSE reportLoop(timestamp, reportID, elems, deviceElements,
                             sample, outcome, k + 1,
                             ApplyElement(acc, e.usagePage, e.usage,
                                          sample[i].value,
                                          IF i \in DOMAIN outcome
                                          THEN outcome[i] ELSE "defined"))

PointerEvent(timestamp, dx, dy, buttons) ==
    [op |-> "dispatchRelativePointerEvent", timestamp |-> timestamp,
     dx |-> dx, dy |-> dy, buttonState |-> buttons,
     options |-> "kIOHIDPointerEventOptionsNoAcceleration", accelerate |-> FALSE]

ScrollEvent(timestamp, dy) ==
    [op |-> "dispatchRelativeScrollWheelEvent", timestamp |-> timestamp,
     dx |-> 0, dy |-> dy, dz |-> 0,
     options |-> "kIOHIDScrollEventOptionsNoAcceleration", accelerate |-> FALSE]

\* Faulty variant: an event is dispatched only when it carries motion.
DispatchEvents_OnlyMotion(timestamp, acc) ==
    (IF (acc.dX /= 0) \/ (acc.dY /= 0)
     THEN << PointerEvent(timestamp, acc.dX, acc.dY, acc.buttonState) >>
     ELSE << >>)
    \o (IF acc.scrollVert /= 0
        THEN << ScrollEvent(timestamp, acc.scrollVert) >> ELSE << >>)

\* The two dispatches that end handleMouseReport.
DispatchEvents(timestamp, acc) ==
    << PointerEvent(timestamp, acc.dX, acc.dY, acc.buttonState),
       ScrollEvent(timestamp, acc.scrollVert) >>

\* Faulty variant: the button state is a local that starts at 0 for every report.
handleMouseReport_LocalButtons(timestamp, reportID, elems, deviceElements, sample, outcome, bs) ==
    LET acc == reportLoop(timestamp, reportID, elems, deviceElements, sample,
                          outcome, 1,
                          [dX |-> 0, dY |-> 0, scrollVert |-> 0, buttonState |-> {}])
    IN  [buttonState |-> acc.buttonState,
         dispatched |-> DispatchEvents(timestamp, acc)]

\* Faulty variant: the pointer event carries the button state read before the loop.
handleMouseReport_StaleButtons(timestamp, reportID, elems, deviceElements, sample, outcome, bs) ==
    LET acc == reportLoop(timestamp, reportID, elems, deviceElements, sample,
                          outcome, 1,
                          [dX |-> 0, dY |-> 0, scrollVert |-> 0, buttonState |-> bs])
    IN  [buttonState |-> acc.buttonState,
         dispatched |-> DispatchEvents(timestamp, [acc EXCEPT !.buttonState = bs])]

\* Faulty variant: dX starts from a value left by the reports handled before.
handleMouseReport_CarriesDelta(timestamp, reportID, elems, deviceElements, sample, outcome, bs) ==
    LET acc == reportLoop(timestamp, reportID, elems, deviceElements, sample,
                          outcome, 1,
                          [dX |-> IF bs = {} THEN 0 ELSE Pow2(PointerShift),
                           dY |-> 0, scrollVert |-> 0, buttonState |-> bs])
    IN  [buttonState |-> acc.buttonState,
         dispatched |-> DispatchEvents(timestamp, acc)]

\* The handler: the new ivars->buttonState and the events it dispatches.
handleMouseReport(timestamp, reportID, elems, deviceElements, sample, outcome, bs) ==
    LET acc == reportLoop(timestamp, reportID, elems, deviceElements, sample,
                          outcome, 1,
                          [dX |-> 0, dY |-> 0, scrollVert |-> 0, buttonState |-> bs])
    IN  [buttonState |-> acc.buttonState,
         dispatched |-> DispatchEvents(timestamp, acc)]

(***************************************************************************)
(* State                                                                   *)
(***************************************************************************)
VARIABLES
    deviceElements,     \* the elements the attached device declares
    state,              \* where the driver instance is in its lifecycle
    ivars,              \* DeliberateMouseDriver_IVars
    cancelCount,        \* the cancels Stop_Impl still waits for
    refs,               \* retains Stop_Impl holds on the driver and the provider
    last,               \* the last lifecycle handler: its name, result and calls
    delivery,           \* the host's report delivery: idle or handled
    report,             \* the report delivered last, with the element samples
    buttonStateBefore,  \* ivars->buttonState when handleReport was entered
    dispatched          \* the events handleReport dispatched for the report

vars == << deviceElements, state, ivars, cancelCount, refs, last,
           delivery, report, buttonStateBefore, dispatched >>

NULL == "nullptr"

\* IONewZero followed by OSArray::withCapacity.
ZeroIvars ==
    [interface |-> NULL, reportAvailableAction |-> NULL,
     mouseElements |-> << >>, buttonState |-> {}]

NoRefs == [driver |-> 0, provider |-> 0]

Call(op, ret) == [op |-> op, ret |-> ret]

NoCall == [handler |-> "none", ret |-> "none", calls |-> << >>]

NoReport == [timestamp |-> 0, reportID |-> 0, sample |-> << >>]

Samples == [value : Values, stamp : TimeStamps]

Init ==
    /\ deviceElements \in Devices
    /\ state = "unloaded"
    /\ ivars = ZeroIvars
    /\ cancelCount = 0
    /\ refs = NoRefs
    /\ last = NoCall
    /\ delivery = "idle"
    /\ report = NoReport
    /\ buttonStateBefore = {}
    /\ dispatched = << >>

(***************************************************************************)
(* init                                                                    *)
(***************************************************************************)
\* ok: super::init and both allocations succeed.
init(ok) ==
    /\ state = "unloaded"
    /\ ivars' = ZeroIvars
    /\ state' = IF ok THEN "inited" ELSE "unloaded"
    /\ last' = [handler |-> "init", ret |-> IF ok THEN "true" ELSE "false", calls |-> << >>]
    /\ cancelCount' = 0
    /\ refs' = NoRefs
    /\ UNCHANGED << deviceElements, delivery, report, buttonStateBefore, dispatched >>

(***************************************************************************)
(* Stop_Impl                                                               *)
(***************************************************************************)
\* Faulty variant: super::Stop is called before the cancel is started as well.
Stop_Impl_StopsAtOnce(iv, superStopRet) ==
    LET close == IF iv.interface /= NULL
                 THEN << Call("Close", "void") >> ELSE << >>
        count == IF iv.reportAvailableAction /= NULL THEN 1 ELSE 0
    IN  IF count = 0
        THEN [calls |-> close \o << Call("super::Stop", superStopRet) >>,
              cancelCount |-> 0, refs |-> NoRefs, ret |-> superStopRet]
        ELSE [calls |-> close \o << Call("super::Stop", superStopRet),
                                    Call("this->retain", "void"),
                                    Call("provider->retain", "void"),
                                    Call("Cancel", "void") >>,
              cancelCount |-> count,
              refs |-> [driver |-> 1, provider |-> 1],
              ret |-> kIOReturnSuccess]

\* The handler on instance variables iv: the calls it makes, the cancels it
\* waits for and what it returns.  superStopRet is what super::Stop returns.
Stop_Impl(iv, superStopRet) ==
    LET close == IF iv.interface /= NULL
                 THEN << Call("Close", "void") >> ELSE << >>
        count == IF iv.reportAvailableAction /= NULL THEN 1 ELSE 0
    IN  IF count = 0
        THEN [calls |-> close \o << Call("super::Stop", superStopRet) >>,
              cancelCount |-> 0, refs |-> NoRefs, ret |-> superStopRet]
        ELSE [calls |-> close \o << Call("this->retain", "void"),
                                    Call("provider->retain", "void"),
                                    Call("Cancel", "void") >>,
              cancelCount |-> count,
              refs |-> [driver |-> 1, provider |-> 1],
              ret |-> kIOReturnSuccess]

\* The finalize block, run by the cancel of reportAvailableAction.
Finalize(count, superStopRet) ==
    IF count <= 1
    THEN [calls |-> << Call("super::Stop", superStopRet),
                       Call("this->release", "void"),
                       Call("provider->release", "void") >>,
          stopped |-> TRUE]
    ELSE [calls |-> << >>, stopped |-> FALSE]

(***************************************************************************)
(* Start_Impl                                                              *)
(***************************************************************************)
\* The collaborator that fails during Start_Impl, if one does.
StartFailures ==
    {"none", "super::Start", "CreateActionReportAvailable", "OSDynamicCast",
     "Open", "getElements", "RegisterService"}

\* Faulty variant: the result of RegisterService is not tested.
StartBody_IgnoresRegister(iv, elements, fail) ==
    LET c1 == << Call("super::Start",
                      IF fail = "super::Start" THEN kIOReturnFailed
                      ELSE kIOReturnSuccess) >>
        iv2 == [iv EXCEPT !.reportAvailableAction = "action"]
        c2 == c1 \o << Call("CreateActionReportAvailable",
                            IF fail = "CreateActionReportAvailable"
                            THEN kIOReturnFailed ELSE kIOReturnSuccess) >>
        iv3 == [iv2 EXCEPT !.interface = "interface"]
        c4 == c2 \o << Call("Open", IF fail = "Open" THEN kIOReturnFailed
                                    ELSE kIOReturnSuccess) >>
        c5 == c4 \o << Call("getElements",
                            IF fail = "getElements" THEN NULL ELSE "elements") >>
        parsed == parseMouseElements(elements, iv3.mouseElements)
        iv6 == [iv3 EXCEPT !.mouseElements = parsed.mouseElements]
        c6 == c5 \o << Call("parseMouseElements", IF parsed.found THEN "true" ELSE "false") >>
        c7 == c6 \o << Call("RegisterService",
                            IF fail = "RegisterService" THEN kIOReturnFailed
                            ELSE kIOReturnSuccess) >>
    IN  IF fail = "super::Start"
        THEN [ivars |-> iv, calls |-> c1, ret |-> kIOReturnFailed, exit |-> TRUE]
        ELSE IF fail = "CreateActionReportAvailable"
        THEN [ivars |-> iv, calls |-> c2, ret |-> kIOReturnFailed, exit |-> TRUE]
        ELSE IF fail = "OSDynamicCast"
        THEN [ivars |-> iv2, calls |-> c2, ret |-> kIOReturnError, exit |-> TRUE]
        ELSE IF fail = "Open"
        THEN [ivars |-> iv3, calls |-> c4, ret |-> kIOReturnFailed, exit |-> TRUE]
        ELSE IF fail = "getElements"
        THEN [ivars |-> iv3, calls |-> c5, ret |-> kIOReturnInvalid, exit |-> TRUE]
        ELSE IF parsed.found = FALSE
        THEN [ivars |-> iv6, calls |-> c6, ret |-> kIOReturnInvalid, exit |-> TRUE]
        ELSE [ivars |-> iv6, calls |-> c7, ret |-> kIOReturnSuccess, exit |-> FALSE]

\* Start_Impl up to its return or its Exit label: the instance variables it
\* leaves, the calls it made, its return code and whether it left by Exit.
StartBody(iv, elements, fail) ==
    LET c1 == << Call("super::Start",
                      IF fail = "super::Start" THEN kIOReturnFailed
                      ELSE kIOReturnSuccess) >>
        iv2 == [iv EXCEPT !.reportAvailableAction = "action"]
        c2 == c1 \o << Call("CreateActionReportAvailable",
                            IF fail = "CreateActionReportAvailable"
                            THEN kIOReturnFailed ELSE kIOReturnSuccess) >>
        iv3 == [iv2 EXCEPT !.interface = "interface"]
        c4 == c2 \o << Call("Open", IF fail = "Open" THEN kIOReturnFailed
                                    ELSE kIOReturnSuccess) >>
        c5 == c4 \o << Call("getElements",
                            IF fail = "getElements" THEN NULL ELSE "elements") >>
        parsed == parseMouseElements(elements, iv3.mouseElements)
        iv6 == [iv3 EXCEPT !.mouseElements = parsed.mouseElements]
        c6 == c5 \o << Call("parseMouseElements", IF parsed.found THEN "true" ELSE "false") >>
        c7 == c6 \o << Call("RegisterService",
                            IF fail = "RegisterService" THEN kIOReturnFailed
                            ELSE kIOReturnSuccess) >>
    IN  IF fail = "super::Start"
        THEN [ivars |-> iv, calls |-> c1, ret |-> kIOReturnFailed, exit |-> TRUE]
        ELSE IF fail = "CreateActionReportAvailable"
        THEN [ivars |-> iv, calls |-> c2, ret |-> kIOReturnFailed, exit |-> TRUE]
        ELSE IF fail = "OSDynamicCast"
        THEN [ivars |-> iv2, calls |-> c2, ret |-> kIOReturnError, exit |-> TRUE]
        ELSE IF fail = "Open"
        THEN [ivars |-> iv3, calls |-> c4, ret |-> kIOReturnFailed, exit |-> TRUE]
        ELSE IF fail = "getElements"
        THEN [ivars |-> iv3, calls |-> c5, ret |-> kIOReturnInvalid, exit |-> TRUE]
        ELSE IF parsed.found = FALSE
        THEN [ivars |-> iv6, calls |-> c6, ret |-> kIOReturnInvalid, exit |-> TRUE]
        ELSE IF fail = "RegisterService"
        THEN [ivars |-> iv6, calls |-> c7, ret |-> kIOReturnFailed, exit |-> TRUE]
        ELSE [ivars |-> iv6, calls |-> c7, ret |-> kIOReturnSuccess, exit |-> FALSE]

\* The whole handler: the body and, on Exit, the Stop it runs.
Start_Impl(fail, superStopRet) ==
    /\ state = "inited"
    /\ LET body == StartBody(ivars, deviceElements, fail)
           stop == Stop_Impl(body.ivars, superStopRet)
       IN  /\ ivars' = body.ivars
           /\ IF body.exit
              THEN /\ last' = [handler |-> "Start", ret |-> body.ret,
                               calls |-> body.calls \o << Call("Stop", stop.ret) >>
                                          \o stop.calls]
                   /\ cancelCount' = stop.cancelCount
                   /\ refs' = stop.refs
                   /\ state' = IF stop.cancelCount = 0 THEN "stopped" ELSE "stopping"
              ELSE /\ last' = [handler |-> "Start", ret |-> body.ret,
                               calls |-> body.calls]
                   /\ cancelCount' = 0
                   /\ refs' = NoRefs
                   /\ state' = "started"
    /\ UNCHANGED << deviceElements, delivery, report, buttonStateBefore, dispatched >>

\* Stop called by the host on a started driver.
Stop(superStopRet) ==
    /\ state = "started"
    /\ delivery = "idle"
    /\ LET stop == Stop_Impl(ivars, superStopRet)
       IN  /\ last' = [handler |-> "Stop", ret |-> stop.ret, calls |-> stop.calls]
           /\ cancelCount' = stop.cancelCount
           /\ refs' = stop.refs
           /\ state' = IF stop.cancelCount = 0 THEN "stopped" ELSE "stopping"
    /\ UNCHANGED << deviceElements, ivars, delivery, report, buttonStateBefore,
                    dispatched >>

\* The cancel of reportAvailableAction completes and runs the finalize block.
CancelHandler(superStopRet) ==
    /\ state = "stopping"
    /\ LET fin == Finalize(cancelCount, superStopRet)
       IN  /\ cancelCount' = cancelCount - 1
           /\ last' = [handler |-> "finalize", ret |-> "void", calls |-> fin.calls]
           /\ refs' = IF fin.stopped THEN NoRefs ELSE refs
           /\ state' = IF fin.stopped THEN "stopped" ELSE "stopping"
    /\ UNCHANGED << deviceElements, ivars, delivery, report, buttonStateBefore,
                    dispatched >>

(***************************************************************************)
(* free                                                                    *)
(***************************************************************************)
\* Faulty variant: the instance variables outlive the instance.
free_KeepsIvars ==
    /\ state = "stopped"
    /\ state' = "unloaded"
    /\ last' = [handler |-> "free", ret |-> "void", calls |-> << Call("super::free", "void") >>]
    /\ UNCHANGED << deviceElements, ivars, cancelCount, refs, delivery, report,
                    buttonStateBefore, dispatched >>

free ==
    /\ state = "stopped"
    /\ state' = "unloaded"
    /\ ivars' = ZeroIvars
    /\ last' = [handler |-> "free", ret |-> "void", calls |-> << Call("super::free", "void") >>]
    /\ UNCHANGED << deviceElements, cancelCount, refs, delivery, report,
                    buttonStateBefore, dispatched >>

(***************************************************************************)
(* Reports                                                                 *)
(***************************************************************************)
\* The host takes a report from the device, stores the samples into the
\* elements and calls handleReport, which passes the timestamp and the report
\* ID to handleMouseReport.  Only the samples of the elements the driver holds
\* are read, so only those are drawn.
handleReport(timestamp, reportID, sample, outcome) ==
    /\ report' = [timestamp |-> timestamp, reportID |-> reportID, sample |-> sample]
    /\ LET r == handleMouseReport(timestamp, reportID, ivars.mouseElements,
                                  deviceElements, sample, outcome,
                                  ivars.buttonState)
       IN  /\ ivars' = [ivars EXCEPT !.buttonState = r.buttonState]
           /\ dispatched' = r.dispatched
    /\ buttonStateBefore' = ivars.buttonState
    /\ delivery' = "handled"
    /\ UNCHANGED << deviceElements, state, cancelCount, refs, last >>

\* handleReport has returned: the host is done with the report and the event
\* system has taken the events.
ReportDone ==
    /\ delivery = "handled"
    /\ delivery' = "idle"
    /\ report' = NoReport
    /\ buttonStateBefore' = {}
    /\ dispatched' = << >>
    /\ UNCHANGED << deviceElements, state, ivars, cancelCount, refs, last >>

SuperStopRets == {kIOReturnSuccess, kIOReturnFailed}

\* The host delivers reports while the interface is open for the driver.
ReportsFlow == (state = "started") /\ (delivery = "idle")

Next ==
    \/ \E ok \in BOOLEAN : init(ok)
    \/ \E fail \in StartFailures, ssr \in SuperStopRets : Start_Impl(fail, ssr)
    \/ \E ssr \in SuperStopRets : Stop(ssr)
    \/ \E ssr \in SuperStopRets : CancelHandler(ssr)
    \/ free
    \/ /\ ReportsFlow
       /\ \E timestamp \in TimeStamps, reportID \in ReportIDs,
             sample \in [Range(ivars.mouseElements) -> Samples],
             outcome \in [UndefinedShifts(ivars.mouseElements, deviceElements)
                             -> ShiftOutcomes] :
               handleReport(timestamp, reportID, sample, outcome)
    \/ ReportDone

Spec == Init /\ [][Next]_vars

(***************************************************************************)
(* The scaling alone: a started driver on a device of axis elements, fed   *)
(* reports whose samples range over the 16-bit values and beyond.          *)
(***************************************************************************)
\* Raw values getValue can return: small ones, the 16-bit extremes, the
\* values around 32768 / 3, and one whose shift by 16 leaves the 32 bits.
WideValues ==
    {-32768, -10923, -10922, -1, 0, 2, 4, 10922, 10923, 16384, 32767, 65536}

WideSamples == [value : WideValues, stamp : {1}]

AxisCatalog ==
    { Element(TRUE, 1, kHIDPage_GenericDesktop, kHIDUsage_GD_X, 1),
      Element(TRUE, 1, kHIDPage_GenericDesktop, kHIDUsage_GD_Y, 1),
      Element(TRUE, 1, kHIDPage_GenericDesktop, kHIDUsage_GD_Wheel, 1) }

AxisDevices == UNION { [1..n -> AxisCatalog] : n \in 1..MaxElems }

\* The driver after init and a successful Start_Impl on an axis device.
InitScaling ==
    /\ deviceElements \in AxisDevices
    /\ state = "started"
    /\ ivars = StartBody(ZeroIvars, deviceElements, "none").ivars
    /\ cancelCount = 0
    /\ refs = NoRefs
    /\ last = [handler |-> "Start", ret |-> kIOReturnSuccess,
               calls |-> StartBody(ZeroIvars, deviceElements, "none").calls]
    /\ delivery = "idle"
    /\ report = NoReport
    /\ buttonStateBefore = {}
    /\ dispatched = << >>

NextScaling ==
    \/ /\ ReportsFlow
       /\ \E timestamp \in TimeStamps, reportID \in ReportIDs,
             sample \in [Range(ivars.mouseElements) -> WideSamples] :
               handleReport(timestamp, reportID, sample, << >>)
    \/ ReportDone

SpecScaling == InitScaling /\ [][NextScaling]_vars

(***************************************************************************)
(* The report handler alone: a started driver on a device all of whose     *)
(* elements are held, fed reports.                                         *)
(***************************************************************************)
HeldCatalog ==
    AxisCatalog \cup { Element(TRUE, 2, kHIDPage_Button, 1, 1),
                       Element(TRUE, 2, kHIDPage_Button, 33, 1) }

HeldDevices == UNION { [1..n -> HeldCatalog] : n \in 1..MaxElems }

\* The driver after init and a successful Start_Impl on such a device.
InitInterpreter ==
    /\ deviceElements \in HeldDevices
    /\ state = "started"
    /\ ivars = StartBody(ZeroIvars, deviceElements, "none").ivars
    /\ cancelCount = 0
    /\ refs = NoRefs
    /\ last = [handler |-> "Start", ret |-> kIOReturnSuccess,
               calls |-> StartBody(ZeroIvars, deviceElements, "none").calls]
    /\ delivery = "idle"
    /\ report = NoReport
    /\ buttonStateBefore = {}
    /\ dispatched = << >>

NextInterpreter ==
    \/ /\ ReportsFlow
       /\ \E timestamp \in TimeStamps, reportID \in ReportIDs,
             sample \in [Range(ivars.mouseElements) -> Samples],
             outcome \in [UndefinedShifts(ivars.mouseElements, deviceElements)
                             -> ShiftOutcomes] :
               handleReport(timestamp, reportID, sample, outcome)
    \/ ReportDone

SpecInterpreter == InitInterpreter /\ [][NextInterpreter]_vars

(***************************************************************************)
(* Start_Impl interleaved with report deliveries.  The interface is opened *)
(* with reportAvailableAction before the elements are fetched and          *)
(* classified, and the driver takes no lock and sets no flag: here the     *)
(* host may deliver a report as soon as the interface is open, so          *)
(* Start_Impl is two steps, up to the return of Open and from there on.    *)
(***************************************************************************)
SmallDevices == UNION { [1..n -> ElementCatalog] : n \in 0..1 }

OpenFailures ==
    {"super::Start", "CreateActionReportAvailable", "OSDynamicCast", "Open"}

\* Start_Impl up to the return of Open.  When a step fails this is the whole
\* handler, with the Stop it runs.
StartOpen(fail, superStopRet) ==
    \/ /\ fail \in OpenFailures
       /\ Start_Impl(fail, superStopRet)
    \/ /\ fail = "none"
       /\ state = "inited"
       /\ LET body == StartBody(ivars, deviceElements, "getElements")
          IN  /\ ivars' = body.ivars
              /\ last' = [handler |-> "Start", ret |-> "running",
                          calls |-> SubSeq(body.calls, 1, 3)]
       /\ state' = "starting"
       /\ UNCHANGED << deviceElements, cancelCount, refs, delivery, report,
                       buttonStateBefore, dispatched >>

\* Start_Impl from the return of Open on: getElements, parseMouseElements,
\* RegisterService and, on Exit, Stop.
StartFinish(fail, superStopRet) ==
    /\ state = "starting"
    /\ fail \in StartFailures \ OpenFailures
    /\ LET body == StartBody(ivars, deviceElements, fail)
           stop == Stop_Impl(body.ivars, superStopRet)
       IN  /\ ivars' = body.ivars
           /\ IF body.exit
              THEN /\ last' = [handler |-> "Start", ret |-> body.ret,
                               calls |-> body.calls \o << Call("Stop", stop.ret) >>
                                          \o stop.calls]
                   /\ cancelCount' = stop.cancelCount
                   /\ refs' = stop.refs
                   /\ state' = IF stop.cancelCount = 0 THEN "stopped" ELSE "stopping"
              ELSE /\ last' = [handler |-> "Start", ret |-> body.ret,
                               calls |-> body.calls]
                   /\ cancelCount' = 0
                   /\ refs' = NoRefs
                   /\ state' = "started"
    /\ UNCHANGED << deviceElements, delivery, report, buttonStateBefore, dispatched >>

\* The interface is open for the driver with the report-available action.
InterfaceOpen == (state \in {"starting", "started"}) /\ (delivery = "idle")

InitSmall ==
    /\ deviceElements \in SmallDevices
    /\ state = "unloaded"
    /\ ivars = ZeroIvars
    /\ cancelCount = 0
    /\ refs = NoRefs
    /\ last = NoCall
    /\ delivery = "idle"
    /\ report = NoReport
    /\ buttonStateBefore = {}
    /\ dispatched = << >>

NextInterleaved ==
    \/ \E ok \in BOOLEAN : init(ok)
    \/ \E fail \in OpenFailures \cup {"none"}, ssr \in SuperStopRets :
           StartOpen(fail, ssr)
    \/ \E fail \in StartFailures, ssr \in SuperStopRets : StartFinish(fail, ssr)
    \/ \E ssr \in SuperStopRets : Stop(ssr)
    \/ \E ssr \in SuperStopRets : CancelHandler(ssr)
    \/ free
    \/ /\ InterfaceOpen
       /\ \E timestamp \in TimeStamps, reportID \in ReportIDs,
             sample \in [Range(ivars.mouseElements) -> Samples],
             outcome \in [UndefinedShifts(ivars.mouseElements, deviceElements)
                             -> ShiftOutcomes] :
               handleReport(timestamp, reportID, sample, outcome)
    \/ ReportDone

SpecInterleaved == InitSmall /\ [][NextInterleaved]_vars

(***************************************************************************)
(* The lifecycle of the driver on small devices.                           *)
(***************************************************************************)
SpecLifecycle == InitSmall /\ [][Next]_vars

(***************************************************************************)
(* The handlers on small devices, with the cancel of reportAvailableAction *)
(* completing: OSAction::Cancel calls its handler once the cancel is done. *)
(***************************************************************************)
SpecCancel ==
    /\ InitSmall
    /\ [][Next]_vars
    /\ WF_vars(\E ssr \in SuperStopRets : CancelHandler(ssr))

(***************************************************************************)
(* Properties                                                              *)
(***************************************************************************)
\* The elements the driver holds, and those among them a report carries.
Classified == Range(ivars.mouseElements)

Handled == delivery = "handled"

SameIdentity(i) == deviceElements[i].reportID = report.reportID

SameTimeStamp(i) == report.sample[i].stamp = report.timestamp

Matches(i) == SameIdentity(i) /\ SameTimeStamp(i)

IsButton(i) ==
    /\ deviceElements[i].usagePage = kHIDPage_Button
    /\ deviceElements[i].usage >= kHIDUsage_Button_1
    /\ deviceElements[i].usage <= kHIDUsage_Button_255

ButtonIndex(i) == deviceElements[i].usage - kHIDUsage_Button_1

IsPointer(ev) == ev.op = "dispatchRelativePointerEvent"

IsScroll(ev) == ev.op = "dispatchRelativeScrollWheelEvent"

\* What the handler left: the button state and the events.
Outcome == [buttonState |-> ivars.buttonState, dispatched |-> dispatched]

ShiftChoices ==
    [UndefinedShifts(ivars.mouseElements, deviceElements) -> ShiftOutcomes]

\* The report delivered last, interpreted over the elements elems from the
\* button state bs.
Interpret(elems, outcome, bs) ==
    handleMouseReport(report.timestamp, report.reportID, elems, deviceElements,
                      report.sample, outcome, bs)

\* parseMouseElements has run in the last Start_Impl.
ParseCalls ==
    { k \in DOMAIN last.calls : last.calls[k].op = "parseMouseElements" }

Parsed == (last.handler = "Start") /\ (ParseCalls /= {})

\* C1: every handled report dispatched exactly one pointer event and exactly
\* one scroll event; when no held element matches the report (identity and
\* timestamp), the deltas are zero and the pointer event carries the button
\* mask stored before the report.
C1_OneEventEach ==
    Handled =>
        /\ Len(SelectSeq(dispatched, IsPointer)) = 1
        /\ Len(SelectSeq(dispatched, IsScroll)) = 1
        /\ (\A i \in Classified : ~Matches(i)) =>
              \A k \in DOMAIN dispatched :
                  /\ IsPointer(dispatched[k]) =>
                        /\ dispatched[k].dx = 0
                        /\ dispatched[k].dy = 0
                        /\ dispatched[k].buttonState = buttonStateBefore
                  /\ IsScroll(dispatched[k]) => dispatched[k].dy = 0

\* A report was handled that no held element matches, with a button down.
C1_Witness ==
    /\ Handled
    /\ Classified /= {}
    /\ \A i \in Classified : ~Matches(i)
    /\ buttonStateBefore /= {}

\* C2: an element whose timestamp differs from the report's has no effect:
\* the handler leaves what it leaves when the stale elements are taken out
\* of the held set.
C2_TemporalFiltering ==
    Handled =>
        \E outcome \in ShiftChoices :
            Outcome = Interpret(SelectSeq(ivars.mouseElements, SameTimeStamp),
                                outcome, buttonStateBefore)

\* A report was handled while an axis and a released button of its identity
\* held stale samples that would have moved the pointer and pressed the button.
C2_Witness ==
    /\ Handled
    /\ \E i \in Classified :
          /\ IsButton(i) /\ SameIdentity(i) /\ ~SameTimeStamp(i)
          /\ report.sample[i].value /= 0
          /\ ButtonIndex(i) \notin buttonStateBefore
    /\ \E i \in Classified :
          /\ deviceElements[i].usagePage = kHIDPage_GenericDesktop
          /\ SameIdentity(i) /\ ~SameTimeStamp(i)
          /\ report.sample[i].value /= 0

\* C3: an element whose report ID differs from the report's has no effect,
\* also when its timestamp is the report's: the handler leaves what it leaves
\* when the elements of other report IDs are taken out of the held set.
C3_IdentityFiltering ==
    Handled =>
        \E outcome \in ShiftChoices :
            Outcome = Interpret(SelectSeq(ivars.mouseElements, SameIdentity),
                                outcome, buttonStateBefore)

\* A report was handled while an element of another report ID held a fresh
\* non-zero sample, next to an element the report does carry.
C3_Witness ==
    /\ Handled
    /\ \E i \in Classified :
          /\ ~SameIdentity(i) /\ SameTimeStamp(i)
          /\ report.sample[i].value /= 0
    /\ \E i \in Classified : Matches(i)

\* C4: a bit of the button mask changes only in a report that carries
\* (identity and timestamp) the button element of that index; the other bits
\* keep their value.
C4_ButtonPersistence ==
    Handled =>
        \A b \in 0..(MaskBits - 1) :
            ((b \in ivars.buttonState) /= (b \in buttonStateBefore)) =>
                \E i \in Classified :
                    IsButton(i) /\ Matches(i) /\ ButtonIndex(i) = b

\* C5: after a report, the bit of every button element the report carries,
\* with an index in 0..31 that no other carried element shares, is 0 if the
\* element's value is 0 and 1 otherwise.
C5_ButtonUpdateRule ==
    Handled =>
        \A i \in Classified :
            ( /\ IsButton(i) /\ Matches(i)
              /\ ButtonIndex(i) \in 0..(MaskBits - 1)
              /\ \A j \in Classified \ {i} :
                    ~(IsButton(j) /\ Matches(j) /\ ButtonIndex(j) = ButtonIndex(i)) )
            => ((ButtonIndex(i) \in ivars.buttonState) <=> (report.sample[i].value /= 0))

\* C6: a report whose report ID is that of no held element yields zero
\* deltas and leaves the button mask as it was; handling the same report
\* again yields the same events and the same mask.
C6_NoOpPacket ==
    (Handled /\ \A i \in Classified : ~SameIdentity(i)) =>
        /\ \A k \in DOMAIN dispatched :
              /\ IsPointer(dispatched[k]) =>
                    (dispatched[k].dx = 0) /\ (dispatched[k].dy = 0)
              /\ IsScroll(dispatched[k]) => (dispatched[k].dy = 0)
        /\ ivars.buttonState = buttonStateBefore
        /\ \A outcome \in ShiftChoices :
              Interpret(ivars.mouseElements, outcome, ivars.buttonState) = Outcome

\* A report of an identity no held element has was handled, with a button
\* down and fresh non-zero samples in the held elements.
C6_Witness ==
    /\ Handled
    /\ \A i \in Classified : ~SameIdentity(i)
    /\ \E i \in Classified : SameTimeStamp(i) /\ report.sample[i].value /= 0
    /\ buttonStateBefore /= {}
    /\ Len(dispatched) = 2

\* The entries of the device's array that are elements.
Channels == { i \in DOMAIN deviceElements : deviceElements[i].isElement }

IsCollection(i) == deviceElements[i].type = kIOHIDElementTypeCollection

InButtonPage(i) == deviceElements[i].usagePage = kHIDPage_Button

InDesktopPage(i) == deviceElements[i].usagePage = kHIDPage_GenericDesktop

IsXYWheel(i) ==
    deviceElements[i].usage \in {kHIDUsage_GD_X, kHIDUsage_GD_Y, kHIDUsage_GD_Wheel}

\* C7: no element of type collection and no element of usage 0 is ever held,
\* whatever its usage page.
C7_ClassificationPurity ==
    \A i \in Classified :
        ~IsCollection(i) /\ (deviceElements[i].usage /= 0)

\* parseMouseElements has run over a device that declares a collection and
\* an element of usage 0, both in the button page.
C7_Witness ==
    /\ Parsed
    /\ \E i \in Channels : IsCollection(i) /\ InButtonPage(i)
    /\ \E i \in Channels :
          ~IsCollection(i) /\ InButtonPage(i) /\ deviceElements[i].usage = 0

\* C8 as claimed: every element of the button page is held once
\* parseMouseElements has run.
C8_EveryButtonClassified ==
    Parsed => \A i \in Channels : InButtonPage(i) => i \in Classified

\* C8: every element of the button page that is not a collection and whose
\* usage is not 0 is held once parseMouseElements has run, whatever its usage.
C8_LeafButtonsClassified ==
    Parsed =>
        \A i \in Channels :
            (InButtonPage(i) /\ ~IsCollection(i) /\ deviceElements[i].usage /= 0)
                => i \in Classified

\* parseMouseElements has run over a device that declares a button beyond
\* the 32 bits of the mask and one beyond usage 255, and holds both.
C8_Witness ==
    /\ Parsed
    /\ \E i \in Classified :
          InButtonPage(i) /\ deviceElements[i].usage > kHIDUsage_Button_255
    /\ \E i \in Classified :
          InButtonPage(i) /\ IsButton(i) /\ ButtonIndex(i) >= MaskBits

\* C9: a held element is in the generic desktop page or the button page; a
\* held element of the generic desktop page is X, Y or the wheel; the
\* elements are held in the order the device declares them; and once
\* parseMouseElements has run, every X, Y and wheel element of the generic
\* desktop page that is not a collection is held.
C9_AxisAcceptance ==
    /\ \A i \in Classified :
          /\ InDesktopPage(i) \/ InButtonPage(i)
          /\ InDesktopPage(i) => IsXYWheel(i)
    /\ \A k, l \in DOMAIN ivars.mouseElements :
          (k < l) => (ivars.mouseElements[k] < ivars.mouseElements[l])
    /\ Parsed =>
          \A i \in Channels :
              (InDesktopPage(i) /\ IsXYWheel(i) /\ ~IsCollection(i))
                  => i \in Classified

\* parseMouseElements has run over a device that declares, before an axis it
\* holds, an element of another usage or another page that it does not hold.
C9_Witness ==
    /\ Parsed
    /\ \E i \in Channels, j \in Classified :
          /\ i < j
          /\ ~IsCollection(i) /\ deviceElements[i].usage /= 0
          /\ ~InButtonPage(i)
          /\ i \notin Classified
          /\ InDesktopPage(j)

\* C10: parseMouseElements returns true exactly when it accepted an element;
\* when it returns false, Start_Impl returns a code other than success, does
\* not call RegisterService, runs Stop once and calls parseMouseElements no
\* second time.
C10_AttachFailure ==
    (last.handler = "Start") =>
        \A k \in ParseCalls :
            /\ (last.calls[k].ret = "true") <=> (ivars.mouseElements /= << >>)
            /\ (last.calls[k].ret = "false") =>
                  /\ last.ret /= kIOReturnSuccess
                  /\ \A m \in DOMAIN last.calls :
                        last.calls[m].op /= "RegisterService"
                  /\ Cardinality({ m \in DOMAIN last.calls :
                                      last.calls[m].op = "Stop" }) = 1
                  /\ \E m \in DOMAIN last.calls :
                        (m > k) /\ (last.calls[m].op = "Stop")
                  /\ ParseCalls = {k}
                  /\ state \in {"stopping", "stopped"}

\* Start_Impl has failed over a device that declares elements, none of them
\* a mouse element.
C10_Witness ==
    /\ last.handler = "Start"
    /\ \E k \in ParseCalls : last.calls[k].ret = "false"
    /\ Channels /= {}
    /\ state = "stopping"

(***************************************************************************)
(* C11..C20                                                                *)
(***************************************************************************)
\* Element i is the last element of the held set, in set order, that matches
\* the report and has the usage of i: the one whose value the loop keeps.
LastOfUsage(i) ==
    \A k, l \in DOMAIN ivars.mouseElements :
        (ivars.mouseElements[k] = i /\ l > k /\ Matches(ivars.mouseElements[l]))
            => \/ deviceElements[ivars.mouseElements[l]].usagePage
                     /= deviceElements[i].usagePage
               \/ deviceElements[ivars.mouseElements[l]].usage
                     /= deviceElements[i].usage

IsUsage(i, usagePage, usage) ==
    (deviceElements[i].usagePage = usagePage) /\ (deviceElements[i].usage = usage)

\* d is v * 2^n as a 32-bit value: its low n bits are 0 and its other
\* 32 - n bits are those of v.
IsScaled(d, v, n) ==
    /\ d % Pow2(n) = 0
    /\ (d \div Pow2(n)) % Pow2(32 - n) = v % Pow2(32 - n)

\* d is the integer -3 * v * 2^16.
IsMinusThreeTimes(d, v) ==
    /\ d % Pow2(ScrollShift) = 0
    /\ d \div Pow2(ScrollShift) = ScrollMultiplier * v

\* The pointer deltas of a handled report are v * 2^15 as 32-bit values.
PointerScaling ==
    \A i \in Classified :
        (Matches(i) /\ LastOfUsage(i)) =>
            /\ IsUsage(i, kHIDPage_GenericDesktop, kHIDUsage_GD_X) =>
                   IsScaled(dispatched[1].dx, report.sample[i].value, PointerShift)
            /\ IsUsage(i, kHIDPage_GenericDesktop, kHIDUsage_GD_Y) =>
                   IsScaled(dispatched[1].dy, report.sample[i].value, PointerShift)

\* C11 as stated: for a matching X or Y channel with raw value v the delta is
\* v * 2^15 as a 32-bit value, and for a matching wheel channel with raw
\* value v such that v * 2^16 fits in 32 bits (v in -32768..32767) the
\* scroll delta equals -3 * v * 2^16.
C11_ScrollWholeRange ==
    Handled =>
        /\ PointerScaling
        /\ \A i \in Classified :
              ( /\ Matches(i) /\ LastOfUsage(i)
                /\ IsUsage(i, kHIDPage_GenericDesktop, kHIDUsage_GD_Wheel)
                /\ report.sample[i].value \in -32768..32767 )
                  => IsMinusThreeTimes(dispatched[2].dy, report.sample[i].value)

\* C11, amended: as above, but the scroll delta equals -3 * v * 2^16 only
\* for v in -10922..10922, where -3 * v * 2^16 itself fits in 32 bits;
\* outside that range the scroll delta is the low 32 bits of the product.
C11_FixedPointScaling ==
    Handled =>
        /\ PointerScaling
        /\ \A i \in Classified :
              ( /\ Matches(i) /\ LastOfUsage(i)
                /\ IsUsage(i, kHIDPage_GenericDesktop, kHIDUsage_GD_Wheel) )
                  => /\ report.sample[i].value \in -10922..10922 =>
                          dispatched[2].dy
                              = ScrollMultiplier * report.sample[i].value * Pow2(ScrollShift)
                     /\ report.sample[i].value \in -32768..32767 =>
                          IsScaled(dispatched[2].dy,
                                   ScrollMultiplier * report.sample[i].value,
                                   ScrollShift)

\* A report whose X value is 4 and whose wheel value is 10922, the largest
\* one in the range, has been handled.
C11_Witness ==
    /\ Handled
    /\ \E i, j \in Classified :
          /\ Matches(i) /\ IsUsage(i, kHIDPage_GenericDesktop, kHIDUsage_GD_X)
          /\ report.sample[i].value = 4
          /\ dispatched[1].dx = 131072
          /\ Matches(j) /\ IsUsage(j, kHIDPage_GenericDesktop, kHIDUsage_GD_Wheel)
          /\ report.sample[j].value = 10922
          /\ dispatched[2].dy = -2147352576

\* The elements of the held set that match the report and have this usage.
MatchingOfUsage(usagePage, usage) ==
    { i \in Classified : Matches(i) /\ IsUsage(i, usagePage, usage) }

\* The raw value the report carries for a usage of the generic desktop page:
\* that of the last matching element, or 0 when none matches.
RawValue(usage) ==
    LET m == MatchingOfUsage(kHIDPage_GenericDesktop, usage)
    IN  IF m = {} THEN 0
        ELSE report.sample[CHOOSE i \in m : LastOfUsage(i)].value

\* C12: the pointer event of a handled report carries the timestamp of the
\* report, the deltas computed for this report and the button mask as this
\* report left it; the scroll event carries the timestamp of the report, the
\* vertical delta computed for this report and horizontal delta 0; both
\* carry the option that disables acceleration.
C12_EventContents ==
    Handled =>
        /\ IsPointer(dispatched[1])
        /\ dispatched[1].timestamp = report.timestamp
        /\ dispatched[1].dx = RawValue(kHIDUsage_GD_X) * Pow2(PointerShift)
        /\ dispatched[1].dy = RawValue(kHIDUsage_GD_Y) * Pow2(PointerShift)
        /\ dispatched[1].buttonState = ivars.buttonState
        /\ dispatched[1].options = "kIOHIDPointerEventOptionsNoAcceleration"
        /\ dispatched[1].accelerate = FALSE
        /\ IsScroll(dispatched[2])
        /\ dispatched[2].timestamp = report.timestamp
        /\ dispatched[2].dy
              = ScrollMultiplier * RawValue(kHIDUsage_GD_Wheel) * Pow2(ScrollShift)
        /\ dispatched[2].dx = 0
        /\ dispatched[2].dz = 0
        /\ dispatched[2].options = "kIOHIDScrollEventOptionsNoAcceleration"
        /\ dispatched[2].accelerate = FALSE

\* A report that moves the pointer and changes the button mask has been
\* handled.
C12_Witness ==
    /\ Handled
    /\ dispatched[1].dx /= 0
    /\ ivars.buttonState /= buttonStateBefore
    /\ dispatched[1].buttonState /= buttonStateBefore

\* C13: the button mask does not survive a detach and reattach: free, init
\* and Start_Impl each leave the mask 0, whatever bits were set when the
\* driver was stopped, and a report is interpreted from the mask stored when
\* it arrives, so the first report after the reattach starts from mask 0.
C13_MaskResetOnReattach ==
    [][ /\ (state = "stopped" /\ state' = "unloaded") => ivars'.buttonState = {}
        /\ (state = "unloaded" /\ state' = "inited") => ivars'.buttonState = {}
        /\ (state = "inited") => ivars'.buttonState = {}
        /\ (delivery = "idle" /\ delivery' = "handled") =>
               buttonStateBefore' = ivars.buttonState ]_vars

\* The driver has been stopped and is about to be freed with a button down.
C13_Witness ==
    /\ state = "stopped"
    /\ last.handler \in {"Stop", "finalize"}
    /\ ivars.buttonState /= {}

\* C14: parseMouseElements runs exactly once in a Start_Impl that succeeds,
\* and when Start_Impl is interleaved with report deliveries, which the host
\* may make once the interface is open, no report is handled before
\* parseMouseElements has finished.
C14_ClassifiedBeforeFirstReport ==
    [][ /\ (delivery = "idle" /\ delivery' = "handled") => Parsed
        /\ (state = "starting" /\ state' = "started") =>
               Cardinality(ParseCalls') = 1 ]_vars

\* The orders in which the held set can hold its elements.
Orders(elems) ==
    { p \in [DOMAIN elems -> DOMAIN elems] :
        \A a, b \in DOMAIN elems : (a /= b) => (p[a] /= p[b]) }

Permuted(elems, p) == [k \in DOMAIN elems |-> elems[p[k]]]

\* The handler leaves the same button state and events whatever the order of
\* the held set.
SameInAnyOrder ==
    \A p \in Orders(ivars.mouseElements) :
        \E outcome \in ShiftChoices :
            Outcome = Interpret(Permuted(ivars.mouseElements, p), outcome,
                                buttonStateBefore)

\* No two elements that match the report have the same usage page and usage.
DistinctMatching ==
    \A i, j \in Classified :
        (i /= j /\ Matches(i) /\ Matches(j)) =>
            ~IsUsage(j, deviceElements[i].usagePage, deviceElements[i].usage)

\* No element that matches the report is a button of index 32 or more.
DefinedMatching ==
    \A i \in UndefinedShifts(ivars.mouseElements, deviceElements) : ~Matches(i)

\* C15 as stated: for any report and prior mask, interpreting the report
\* over any permutation of the held set, sets with two matching elements of
\* the same usage included, yields the same deltas and the same mask.
C15_AnyOrderAnySet == Handled => SameInAnyOrder

\* C15, amended: interpreting the report over any permutation of the held
\* set yields the same deltas and the same mask, provided no two elements
\* that match the report have the same usage and no matching button has an
\* index of 32 or more.
C15_OrderIrrelevant ==
    (Handled /\ DistinctMatching /\ DefinedMatching) => SameInAnyOrder

\* A report with two matching elements of different usages, one an axis that
\* moves and one a button that changes the mask, has been handled.
C15_Witness ==
    /\ Handled
    /\ DistinctMatching
    /\ DefinedMatching
    /\ Cardinality({ i \in Classified : Matches(i) }) >= 2
    /\ dispatched[1].dx /= 0
    /\ ivars.buttonState /= buttonStateBefore

\* The deltas a pair of events carries.
Deltas(events) ==
    [deltaX |-> events[1].dx, deltaY |-> events[1].dy,
     scrollVertical |-> events[2].dy]

\* The button masks that reports handled earlier can have left: the sets of
\* bits the buttons of the held set write.
PriorMasks ==
    SUBSET { ButtonIndex(i) % MaskBits : i \in { j \in Classified : IsButton(j) } }

\* C16: the deltas of a handled report depend only on the report and on the
\* values the held elements hold for it: had the reports handled before left
\* any other button mask, the same element values and the same report would
\* give the same deltas.
C16_NoAccumulation ==
    Handled =>
        \A bs \in PriorMasks, outcome \in ShiftChoices :
            Deltas(Interpret(ivars.mouseElements, outcome, bs).dispatched)
                = Deltas(dispatched)

\* A report that moves the pointer has been handled after reports that left
\* a button down.
C16_Witness ==
    /\ Handled
    /\ buttonStateBefore /= {}
    /\ Cardinality(PriorMasks) > 1
    /\ dispatched[1].dx /= 0

\* How often the last lifecycle handler made the call op.
CountCalls(op) ==
    Cardinality({ k \in DOMAIN last.calls : last.calls[k].op = op })

\* Stop_Impl has returned and waits for the cancel: no super::Stop yet, one
\* retain each on the driver and the provider.
StopDeferred ==
    /\ last.handler \in {"Start", "Stop"}
    /\ ivars.reportAvailableAction /= NULL
    /\ CountCalls("super::Stop") = 0
    /\ CountCalls("Cancel") = 1
    /\ CountCalls("this->retain") = 1
    /\ CountCalls("provider->retain") = 1
    /\ CountCalls("this->release") = 0
    /\ CountCalls("provider->release") = 0
    /\ refs = [driver |-> 1, provider |-> 1]

\* Stop_Impl has stopped the driver itself: one super::Stop, nothing retained.
StopImmediate ==
    /\ ivars.reportAvailableAction = NULL
    /\ CountCalls("super::Stop") = 1
    /\ CountCalls("Cancel") = 0
    /\ CountCalls("this->retain") = 0
    /\ CountCalls("provider->retain") = 0
    /\ refs = NoRefs

\* The cancel handler has run: one super::Stop, one release each.
StopFinalized ==
    /\ state = "stopped"
    /\ CountCalls("super::Stop") = 1
    /\ CountCalls("this->release") = 1
    /\ CountCalls("provider->release") = 1
    /\ refs = NoRefs

\* C17: every Stop_Impl leads to exactly one super::Stop: made by Stop_Impl
\* itself when there is no reportAvailableAction to cancel, and otherwise
\* made by the cancel handler and not before, which runs if the cancel
\* completes; the retains Stop_Impl takes on the driver and the provider are
\* each balanced by one release.
C17_StopOnce ==
    /\ [](state = "stopping" => StopDeferred)
    /\ []((state = "stopped" /\ last.handler \in {"Start", "Stop"}) => StopImmediate)
    /\ [](last.handler = "finalize" => StopFinalized)
    /\ ((state = "stopping") ~> (state = "stopped"))

\* The cancel handler has stopped a driver whose Stop_Impl had returned.
C17_Witness ==
    /\ state = "stopped"
    /\ last.handler = "finalize"
    /\ CountCalls("super::Stop") = 1

\* C18: Stop_Impl closes the interface only if the Open of Start_Impl
\* succeeded: a Stop run by a Start_Impl whose Open failed, or that did not
\* reach Open, makes no Close.  (A Stop called by the host finds a started
\* driver, whose Open succeeded.)
C18_CloseOnlyAfterOpen ==
    (last.handler = "Start") =>
        \A k \in DOMAIN last.calls :
            (last.calls[k].op = "Close") =>
                \E j \in 1..(k - 1) :
                    last.calls[j] = Call("Open", kIOReturnSuccess)

\* The calls Start_Impl made itself: those before it called Stop.
BodyCalls ==
    { k \in DOMAIN last.calls :
        \A j \in 1..k : last.calls[j].op /= "Stop" }

\* The call reported a failure to Start_Impl.
StepFailed(call) ==
    call.ret \notin {kIOReturnSuccess, "elements", "true"}

\* C19: Start_Impl is all or nothing.  If a step fails (super::Start, the
\* creation of the action, the cast of the provider, Open, getElements, the
\* classification, RegisterService), Start_Impl makes no further step, runs
\* Stop exactly once and returns an error; RegisterService is called only
\* after all the earlier steps succeeded; a Start_Impl that succeeds does
\* not run Stop.
C19_AllOrNothing ==
    (last.handler = "Start") =>
        /\ CountCalls("Stop") <= 1
        /\ (last.ret = kIOReturnSuccess) <=> (CountCalls("Stop") = 0)
        /\ (last.ret = kIOReturnSuccess) =>
              /\ state = "started"
              /\ ivars.interface /= NULL
              /\ Cardinality(BodyCalls) = 6
              /\ \A k \in BodyCalls : ~StepFailed(last.calls[k])
        /\ \A k \in BodyCalls :
              StepFailed(last.calls[k]) =>
                  /\ last.ret /= kIOReturnSuccess
                  /\ last.calls[k + 1].op = "Stop"
        /\ (ivars.interface = NULL) =>
              /\ last.ret /= kIOReturnSuccess
              /\ CountCalls("Open") = 0
              /\ CountCalls("Stop") = 1
        /\ \A k \in BodyCalls :
              (last.calls[k].op = "RegisterService") =>
                  /\ k = 6
                  /\ ivars.interface /= NULL
                  /\ \A j \in 1..(k - 1) : ~StepFailed(last.calls[j])

\* Start_Impl has failed at its last step, RegisterService, and has run Stop.
C19_Witness ==
    /\ last.handler = "Start"
    /\ last.ret = kIOReturnFailed
    /\ \E k \in BodyCalls :
          /\ last.calls[k] = Call("RegisterService", kIOReturnFailed)
          /\ last.calls[k + 1].op = "Stop"

\* Every bit of the mask is the index of a button of the held set.
MaskWithinButtons ==
    \A b \in ivars.buttonState :
        \E i \in Classified : IsButton(i) /\ (ButtonIndex(i) = b)

\* C20: the mask is 0 after init, and while every button of the held set
\* has an index in 0..31 a bit of the mask is set only if the held set has a
\* button of that index; no handler of the driver other than the report
\* handler changes the mask (free ends it with the instance).
C20_MaskWithinButtons ==
    [][ /\ (state = "unloaded" /\ state' = "inited") => ivars'.buttonState = {}
        /\ (UndefinedShifts(ivars.mouseElements, deviceElements) = {})' =>
               MaskWithinButtons'
        /\ (ivars'.buttonState /= ivars.buttonState /\ state' /= "unloaded") =>
               (delivery = "idle" /\ delivery' = "handled") ]_vars

\* A report has left a button down in a held set that has an element which
\* is no button as well, all button indices being in 0..31.
C20_Witness ==
    /\ Handled
    /\ UndefinedShifts(ivars.mouseElements, deviceElements) = {}
    /\ ivars.buttonState /= {}
    /\ ivars.buttonState /= buttonStateBefore
    /\ \E i \in Classified : ~IsButton(i)

====
